---- MODULE Spec2Model ----
(***************************************************************************)
(* A model of liteman's history store and request handlers (src/app.py).   *)
(*                                                                         *)
(* Strings are sequences of one-character strings, so that str.upper and   *)
(* str.strip are computed and not assumed.  A missing JSON field (None)    *)
(* and an empty string are both the empty sequence: every read of a        *)
(* payload or entry field in app.py goes through `x or default` or         *)
(* `not x`, which do not tell them apart.  A header mapping is a sequence  *)
(* of <<key, value>> pairs with distinct keys, in insertion order (a       *)
(* Python dict).  Ids drawn by uuid4 are fresh naturals; 0 is no id.       *)
(***************************************************************************)
EXTENDS Naturals, Sequences, FiniteSets, TLC

VARIABLES file, nextId, clock, inflight, last

vars == <<file, nextId, clock, inflight, last>>

----------------------------------------------------------------------------
(* Bounds of the model *)

MaxSends == 2

MaxClock == 2

MaxOrderLen == 1

MaxFill == 101

MaxCapClock == 102

MaxStored == 4

MaxReorderLen == 3

MaxPersisted == 3

(* Program constants *)

HistoryCap == 100

NetworkFailureStatus == 599

----------------------------------------------------------------------------
(* Strings *)

Lower == <<"a", "b", "e", "g", "h", "m", "n", "o", "p", "s", "t", "x", "y">>

Upper == <<"A", "B", "E", "G", "H", "M", "N", "O", "P", "S", "T", "X", "Y">>

Digit == <<"0", "1", "2", "3", "4", "5", "6", "7", "8", "9">>

(* the characters in code point order *)
CodePoints == <<" ">> \o Digit \o <<":">> \o Upper \o Lower

Ord(c) == CHOOSE i \in 1..Len(CodePoints) : CodePoints[i] = c

Whitespace == {" "}

(* str.upper on one character: Lower[i] becomes Upper[i] *)
UpperChar(c) ==
  CASE c = "a" -> "A" [] c = "b" -> "B" [] c = "e" -> "E" [] c = "g" -> "G"
    [] c = "h" -> "H" [] c = "m" -> "M" [] c = "n" -> "N" [] c = "o" -> "O"
    [] c = "p" -> "P" [] c = "s" -> "S" [] c = "t" -> "T" [] c = "x" -> "X"
    [] c = "y" -> "Y" [] OTHER -> c

(* the list with the given items, as a sequence value *)
List_(items) == items \o <<>>

upper(s) == List_([i \in 1..Len(s) |-> UpperChar(s[i])])

RECURSIVE lstrip(_)
lstrip(s) == IF s # <<>> /\ Head(s) \in Whitespace THEN lstrip(Tail(s)) ELSE s

RECURSIVE rstrip(_)
rstrip(s) ==
  IF s # <<>> /\ s[Len(s)] \in Whitespace THEN rstrip(SubSeq(s, 1, Len(s) - 1)) ELSE s

strip(s) == rstrip(lstrip(s))

(* s < t in the order Python compares str: by code point, a prefix first *)
RECURSIVE StrLess(_, _)
StrLess(s, t) ==
  IF t = <<>> THEN FALSE
  ELSE IF s = <<>> THEN TRUE
  ELSE IF Head(s) = Head(t) THEN StrLess(Tail(s), Tail(t))
  ELSE Ord(Head(s)) < Ord(Head(t))

RECURSIVE Digits(_)
Digits(n) == IF n < 10 THEN <<Digit[n + 1]>> ELSE Digits(n \div 10) \o <<Digit[(n % 10) + 1]>>

----------------------------------------------------------------------------
(* entry_fingerprint *)

(* {str(k).strip(): str(v).strip() for k, v in headers.items()}: a later pair *)
(* whose stripped key is already present overwrites the value in place        *)
RECURSIVE NormalizedHeaders(_, _)
NormalizedHeaders(headers, acc) ==
  IF headers = <<>> THEN acc
  ELSE LET k == strip(Head(headers)[1])
           v == strip(Head(headers)[2])
           at == {i \in 1..Len(acc) : acc[i][1] = k}
       IN  NormalizedHeaders(
             Tail(headers),
             IF at = {} THEN Append(acc, <<k, v>>)
             ELSE List_([i \in 1..Len(acc) |-> IF i \in at THEN <<k, v>> ELSE acc[i]]))

RECURSIVE InsertSorted(_, _)
InsertSorted(sorted, pair) ==
  IF sorted = <<>> THEN <<pair>>
  ELSE IF StrLess(pair[1], Head(sorted)[1]) THEN <<pair>> \o sorted
  ELSE <<Head(sorted)>> \o InsertSorted(Tail(sorted), pair)

(* tuple(sorted(normalized_headers.items())): the keys are distinct *)
RECURSIVE SortedItems(_)
SortedItems(items) ==
  IF items = <<>> THEN <<>>
  ELSE InsertSorted(SortedItems(Tail(items)), Head(items))

entry_fingerprint(entry) ==
  << upper(entry.method),
     strip(entry.url),
     SortedItems(NormalizedHeaders(entry.headers, <<>>)),
     entry.body >>

----------------------------------------------------------------------------
(* The persisted store HISTORY_PATH and the Store operations.  An operation *)
(* is the file it leaves and the value it returns.  The form of a file is   *)
(* "array" (a JSON array of entry objects, held in entries), "malformed"    *)
(* (not JSON: json.load raises JSONDecodeError) or "other" (JSON that is    *)
(* not an array of entry objects, such as a number or an array of numbers). *)

NoFile == [exists |-> FALSE, form |-> "array", entries |-> <<>>]

(* the items of a sequence with their positions, and back *)
Indexed(items) == List_([i \in 1..Len(items) |-> <<i, items[i]>>])

Items(indexed) == List_([k \in 1..Len(indexed) |-> indexed[k][2]])

(* a load that keeps the last entry of each fingerprint *)
UniqueKeepingLast(entries) ==
  LET fingerprint == List_([i \in 1..Len(entries) |-> entry_fingerprint(entries[i])])
      unseen(at) == \A j \in (at[1] + 1)..Len(entries) : fingerprint[j] # fingerprint[at[1]]
  IN  Items(SelectSeq(Indexed(entries), unseen))

(* the loop of load_history: when it reaches an entry, seen holds the      *)
(* fingerprints of all the entries before it, so the entry is appended to  *)
(* unique exactly when none of them has its fingerprint                    *)
Unique(entries) ==
  LET fingerprint == List_([i \in 1..Len(entries) |-> entry_fingerprint(entries[i])])
      unseen(at) == \A j \in 1..(at[1] - 1) : fingerprint[j] # fingerprint[at[1]]
  IN  Items(SelectSeq(Indexed(entries), unseen))

(* load_history raises: the loop over a value that is not a list of dicts *)
(* raises TypeError or AttributeError, which the except clause of line 34 *)
(* does not catch                                                         *)
LoadRaises(f) == f.exists /\ f.form = "other"

(* the value load_history returns when it does not raise *)
load_history(f) ==
  IF ~f.exists \/ f.form = "malformed" THEN <<>> ELSE Unique(f.entries)

save_history(history) == [exists |-> TRUE, form |-> "array", entries |-> history]

remove_entry(f, entry_id) ==
  LET history == load_history(f)
      differs(item) == item.id # entry_id
      new_history == SelectSeq(history, differs)
  IN  IF Len(new_history) = Len(history)
      THEN [file |-> f, ret |-> FALSE]
      ELSE [file |-> save_history(new_history), ret |-> TRUE]

(* a rename of every entry of the id *)
rename_entry_all_matches(f, entry_id, name) ==
  LET history == load_history(f)
      matches == {i \in 1..Len(history) : history[i].id = entry_id}
  IN  IF matches = {}
      THEN [file |-> f, ret |-> FALSE]
      ELSE [file |-> save_history(List_([i \in 1..Len(history) |->
                        IF i \in matches THEN [history[i] EXCEPT !.name = name]
                        ELSE history[i]])),
            ret |-> TRUE]

rename_entry(f, entry_id, name) ==
  LET history == load_history(f)
      matches == {i \in 1..Len(history) : history[i].id = entry_id}
  IN  IF matches = {}
      THEN [file |-> f, ret |-> FALSE]
      ELSE LET first == CHOOSE i \in matches : \A j \in matches : i <= j
           IN  [file |-> save_history([history EXCEPT ![first].name = name]),
                ret |-> TRUE]

(* a first loop that does not look at seen *)
RECURSIVE OrderedPartRepeating(_, _, _, _)
OrderedPartRepeating(history, order, new_history, seen) ==
  IF order = <<>> THEN <<new_history, seen>>
  ELSE LET entry_id == Head(order)
           having == {i \in 1..Len(history) : history[i].id = entry_id}
       IN  IF having # {}
           THEN OrderedPartRepeating(history, Tail(order),
                  Append(new_history,
                         history[CHOOSE i \in having : \A j \in having : j <= i]),
                  seen \cup {entry_id})
           ELSE OrderedPartRepeating(history, Tail(order), new_history, seen)

(* the first loop of reorder_entries: state is <<new_history, seen>>;  *)
(* by_id maps an id to the last item of history that carries it        *)
RECURSIVE OrderedPart(_, _, _, _)
OrderedPart(history, order, new_history, seen) ==
  IF order = <<>> THEN <<new_history, seen>>
  ELSE LET entry_id == Head(order)
           having == {i \in 1..Len(history) : history[i].id = entry_id}
       IN  IF having # {} /\ entry_id \notin seen
           THEN OrderedPart(history, Tail(order),
                  Append(new_history,
                         history[CHOOSE i \in having : \A j \in having : j <= i]),
                  seen \cup {entry_id})
           ELSE OrderedPart(history, Tail(order), new_history, seen)

(* the second loop: when it reaches an entry, seen holds the ids the first *)
(* loop added and the ids of all the entries before it, so the entry is    *)
(* appended exactly when its id is in neither                              *)
RestPart(history, new_history, seen) ==
  LET unseen(at) == /\ at[2].id \notin seen
                    /\ \A j \in 1..(at[1] - 1) : history[j].id # at[2].id
  IN  new_history \o Items(SelectSeq(Indexed(history), unseen))

reorder_entries(f, order) ==
  LET history == load_history(f)
      part == OrderedPart(history, order, <<>>, {})
      new_history == RestPart(history, part[1], part[2])
  IN  [file |-> save_history(new_history), ret |-> new_history]

(* {**entry, **previous} *)
DictMergePreviousWins(previous, entry) ==
  [k \in (DOMAIN previous) \cup (DOMAIN entry) |->
     IF k \in DOMAIN previous THEN previous[k] ELSE entry[k]]

(* {**previous, **entry} *)
DictMerge(previous, entry) ==
  [k \in (DOMAIN previous) \cup (DOMAIN entry) |->
     IF k \in DOMAIN entry THEN entry[k] ELSE previous[k]]

NoId == 0

(* a merge that takes the id of the new entry *)
MergedWithNewId(previous, entry) ==
  LET merged == DictMerge(previous, entry)
  IN  IF merged.name = <<>> /\ previous.name # <<>>
      THEN [merged EXCEPT !.name = previous.name]
      ELSE merged

(* a merge that does not fall back to the previous name *)
MergedWithNewName(previous, entry) ==
  LET merged == DictMerge(previous, entry)
  IN  [merged EXCEPT !.id = IF previous.id # NoId THEN previous.id ELSE entry.id]

Merged(previous, entry) ==
  LET merged == DictMerge(previous, entry)
      withId == [merged EXCEPT !.id = IF previous.id # NoId THEN previous.id ELSE entry.id]
  IN  IF withId.name = <<>> /\ previous.name # <<>>
      THEN [withId EXCEPT !.name = previous.name]
      ELSE withId

(* no truncation *)
NotTruncated(history) == history

(* a truncation that keeps the last HistoryCap entries *)
TruncatedToNewest(history) ==
  SubSeq(history, IF Len(history) < HistoryCap THEN 1 ELSE Len(history) - HistoryCap + 1,
         Len(history))

Truncated(history) ==
  SubSeq(history, 1, IF Len(history) < HistoryCap THEN Len(history) ELSE HistoryCap)

(* a record that looks for an entry with the same raw fields *)
record_entry_matching_raw(f, entry) ==
  LET history == load_history(f)
      raw(item) == <<item.method, item.url, item.headers, item.body>>
      same == {i \in 1..Len(history) : raw(history[i]) = raw(entry)}
      updated ==
        IF same # {}
        THEN LET existing_index == CHOOSE i \in same : \A j \in same : i <= j
             IN  [history EXCEPT ![existing_index] = Merged(history[existing_index], entry)]
        ELSE Append(history, entry)
  IN  [file |-> save_history(Truncated(updated)), ret |-> entry]

(* a record that returns the value it stored *)
record_entry_returning_stored(f, entry) ==
  LET history == load_history(f)
      fingerprint == entry_fingerprint(entry)
      same == {i \in 1..Len(history) : entry_fingerprint(history[i]) = fingerprint}
      existing_index == CHOOSE i \in same : \A j \in same : i <= j
      stored == IF same # {} THEN Merged(history[existing_index], entry) ELSE entry
      updated ==
        IF same # {}
        THEN [history EXCEPT ![existing_index] = stored]
        ELSE Append(history, entry)
  IN  [file |-> save_history(Truncated(updated)), ret |-> stored]

(* a record that moves the merged entry to the end *)
record_entry_moving_to_back(f, entry) ==
  LET history == load_history(f)
      fingerprint == entry_fingerprint(entry)
      same == {i \in 1..Len(history) : entry_fingerprint(history[i]) = fingerprint}
      updated ==
        IF same # {}
        THEN LET existing_index == CHOOSE i \in same : \A j \in same : i <= j
                 others(at) == at[1] # existing_index
             IN  Append(Items(SelectSeq(Indexed(history), others)),
                        Merged(history[existing_index], entry))
        ELSE Append(history, entry)
  IN  [file |-> save_history(Truncated(updated)), ret |-> entry]

(* a record that leaves the previous entry where it is and appends the merged one *)
record_entry_keeping_previous(f, entry) ==
  LET history == load_history(f)
      fingerprint == entry_fingerprint(entry)
      same == {i \in 1..Len(history) : entry_fingerprint(history[i]) = fingerprint}
      updated ==
        IF same # {}
        THEN LET existing_index == CHOOSE i \in same : \A j \in same : i <= j
             IN  Append(history, Merged(history[existing_index], entry))
        ELSE Append(history, entry)
  IN  [file |-> save_history(Truncated(updated)), ret |-> entry]

(* a record that appends without looking for the fingerprint *)
record_entry_appending(f, entry) ==
  [file |-> save_history(Truncated(Append(load_history(f), entry))), ret |-> entry]

record_entry(f, entry) ==
  LET history == load_history(f)
      fingerprint == entry_fingerprint(entry)
      same == {i \in 1..Len(history) : entry_fingerprint(history[i]) = fingerprint}
      updated ==
        IF same # {}
        THEN LET existing_index == CHOOSE i \in same : \A j \in same : i <= j
             IN  [history EXCEPT ![existing_index] = Merged(history[existing_index], entry)]
        ELSE Append(history, entry)
  IN  [file |-> save_history(Truncated(updated)), ret |-> entry]

----------------------------------------------------------------------------
(* The External Request Executor *)

Scheme == <<"h", ":">>

(* urllib.request.Request(url) raises ValueError for a url without a scheme *)
HasScheme(url) ==
  LET u == strip(url) IN Len(u) >= Len(Scheme) /\ SubSeq(u, 1, Len(Scheme)) = Scheme

ServerStatuses == {200, 404}

(* the results send_external_request can produce: a status read from the   *)
(* target (a response or an HTTPError: lines 132-142), the sentinel of a   *)
(* URLError (lines 143-145), or an exception it does not catch (the        *)
(* Request constructor of line 125 is outside the try)                     *)
send_external_request(method, url, headers, body) ==
  IF ~HasScheme(url)
  THEN {[raised |-> TRUE, status_code |-> 0]}
  ELSE {[raised |-> FALSE, status_code |-> s] : s \in ServerStatuses \cup {NetworkFailureStatus}}

----------------------------------------------------------------------------
(* The request handlers *)

NoEntry ==
  [id |-> NoId, timestamp |-> 0, method |-> <<>>, url |-> <<>>, headers |-> <<>>,
   body |-> <<>>, response_status |-> 0, name |-> <<>>]

Idle == [op |-> "idle", entry |-> NoEntry]

(* what the handler of the latest request wrote with _write_json: the      *)
(* status code and, of the payload, status, deleted or renamed (id), name  *)
(* and saved; code 0 is a handler that raised and wrote nothing            *)
Response(op, code) ==
  [op |-> op, code |-> code, status |-> 0, id |-> NoId, name |-> <<>>, saved |-> NoEntry]

(* nothing written yet: no request so far, or its handler is still running *)
NoResponse == Response("none", 0)

GET == <<"G", "E", "T">>

(* a server that starts a handler while another one is running *)
ServingThreaded(current) == TRUE

(* HTTPServer handles one request at a time: a handler starts only when    *)
(* no other handler is running                                             *)
Serving(current) == current.op = "idle"

Init ==
  /\ file = NoFile
  /\ nextId = 1
  /\ clock = 1
  /\ inflight = Idle
  /\ last = NoResponse

(* GET /api/history *)
List ==
  /\ Serving(inflight)
  /\ last' = IF LoadRaises(file) THEN Response("list", 0) ELSE Response("list", 200)
  /\ UNCHANGED <<file, nextId, clock, inflight>>

(* POST /api/send up to the call of the Executor *)
SendBegin(payload) ==
  /\ Serving(inflight)
  /\ inflight.op = "idle"
  /\ LET url == payload.url
         method == upper(IF payload.method = <<>> THEN GET ELSE payload.method)
     IN  IF url = <<>>
         THEN /\ last' = Response("send", 400)
              /\ UNCHANGED <<file, nextId, clock, inflight>>
         ELSE /\ inflight' = [op |-> "send",
                              entry |-> [NoEntry EXCEPT !.method = method, !.url = url,
                                           !.headers = payload.headers,
                                           !.body = payload.body, !.name = payload.name]]
              /\ last' = NoResponse
              /\ UNCHANGED <<file, nextId, clock>>

(* POST /api/send from the return of the Executor *)
SendFinish(result) ==
  /\ inflight.op = "send"
  /\ result \in send_external_request(inflight.entry.method, inflight.entry.url,
                                      inflight.entry.headers, inflight.entry.body)
  /\ inflight' = Idle
  /\ IF result.raised
     THEN /\ last' = Response("send", 0)
          /\ UNCHANGED <<file, nextId, clock>>
     ELSE LET entry == [inflight.entry EXCEPT !.id = nextId, !.timestamp = clock,
                                              !.response_status = result.status_code]
          IN  /\ nextId' = nextId + 1
              /\ clock' = clock + 1
              /\ IF LoadRaises(file)
                 THEN /\ last' = Response("send", 0)
                      /\ UNCHANGED file
                 ELSE /\ file' = record_entry(file, entry).file
                      /\ last' = [Response("send", 200) EXCEPT !.status = result.status_code,
                                                               !.saved = entry]

(* a lookup that falls back to the first entry of the History *)
FirstWithIdOrHead(history, target_id) ==
  LET found == {i \in 1..Len(history) : history[i].id = target_id}
  IN  IF found # {} THEN history[CHOOSE i \in found : \A j \in found : i <= j]
      ELSE IF history = <<>> THEN NoEntry
      ELSE Head(history)

(* next((item for item in history if item.get("id") == target_id), None); *)
(* None is NoEntry                                                         *)
FirstWithId(history, target_id) ==
  LET found == {i \in 1..Len(history) : history[i].id = target_id}
  IN  IF found = {} THEN NoEntry
      ELSE history[CHOOSE i \in found : \A j \in found : i <= j]

(* POST /api/resend up to the call of the Executor *)
ResendBegin(target_id) ==
  /\ Serving(inflight)
  /\ inflight.op = "idle"
  /\ IF target_id = NoId
     THEN /\ last' = Response("resend", 400)
          /\ UNCHANGED <<file, nextId, clock, inflight>>
     ELSE LET entry == FirstWithId(load_history(file), target_id)
          IN  IF LoadRaises(file)
              THEN /\ last' = Response("resend", 0)
                   /\ UNCHANGED <<file, nextId, clock, inflight>>
              ELSE IF entry = NoEntry
              THEN /\ last' = Response("resend", 404)
                   /\ UNCHANGED <<file, nextId, clock, inflight>>
              ELSE /\ inflight' = [op |-> "resend", entry |-> entry]
                   /\ last' = NoResponse
                   /\ UNCHANGED <<file, nextId, clock>>

(* POST /api/resend from the return of the Executor *)
ResendFinish(result) ==
  /\ inflight.op = "resend"
  /\ result \in send_external_request(inflight.entry.method, inflight.entry.url,
                                      inflight.entry.headers, inflight.entry.body)
  /\ inflight' = Idle
  /\ IF result.raised
     THEN /\ last' = Response("resend", 0)
          /\ UNCHANGED <<file, nextId, clock>>
     ELSE LET entry == [inflight.entry EXCEPT !.response_status = result.status_code,
                                              !.timestamp = clock]
          IN  /\ clock' = clock + 1
              /\ UNCHANGED nextId
              /\ IF LoadRaises(file)
                 THEN /\ last' = Response("resend", 0)
                      /\ UNCHANGED file
                 ELSE /\ file' = record_entry(file, entry).file
                      /\ last' = [Response("resend", 200) EXCEPT !.status = result.status_code,
                                                                 !.saved = entry]

(* POST /api/delete *)
Delete(target_id) ==
  /\ Serving(inflight)
  /\ IF target_id = NoId
     THEN /\ last' = Response("delete", 400)
          /\ UNCHANGED file
     ELSE IF LoadRaises(file)
     THEN /\ last' = Response("delete", 0)
          /\ UNCHANGED file
     ELSE LET removed == remove_entry(file, target_id)
          IN  /\ file' = removed.file
              /\ last' = IF removed.ret
                          THEN [Response("delete", 200) EXCEPT !.id = target_id]
                          ELSE Response("delete", 404)
  /\ UNCHANGED <<nextId, clock, inflight>>

(* POST /api/rename *)
Rename(target_id, name) ==
  /\ Serving(inflight)
  /\ IF target_id = NoId
     THEN /\ last' = Response("rename", 400)
          /\ UNCHANGED file
     ELSE IF LoadRaises(file)
     THEN /\ last' = Response("rename", 0)
          /\ UNCHANGED file
     ELSE LET renamed == rename_entry(file, target_id, name)
          IN  /\ file' = renamed.file
              /\ last' = IF renamed.ret
                          THEN [Response("rename", 200) EXCEPT !.id = target_id,
                                                               !.name = name]
                          ELSE Response("rename", 404)
  /\ UNCHANGED <<nextId, clock, inflight>>

(* POST /api/reorder; isList is whether the payload's order is a JSON array *)
Reorder(isList, order) ==
  /\ Serving(inflight)
  /\ IF ~isList
     THEN /\ last' = Response("reorder", 400)
          /\ UNCHANGED file
     ELSE IF LoadRaises(file)
     THEN /\ last' = Response("reorder", 0)
          /\ UNCHANGED file
     ELSE /\ file' = reorder_entries(file, order).file
          /\ last' = Response("reorder", 200)
  /\ UNCHANGED <<nextId, clock, inflight>>

----------------------------------------------------------------------------
(* The requests of a client: Spec *)

X == <<"h", ":", "x">>

POST == <<"P", "O", "S", "T">>

Payload(method, url, headers, body, name) ==
  [method |-> method, url |-> url, headers |-> headers, body |-> body, name |-> name]

Payloads ==
  { Payload(<<>>, X, <<>>, <<>>, <<>>),
    Payload(POST, X, << <<<<"a">>, <<"1">>>>, <<<<"b">>, <<"2">>>> >>, <<"b">>, <<>>),
    Payload(<<"p", "o", "s", "t">>, X \o <<" ">>,
            << <<<<"b", " ">>, <<" ", "2">>>>, <<<<" ", "a">>, <<"1">>>> >>, <<"b">>, <<"m">>),
    Payload(GET, <<"x">>, <<>>, <<>>, <<>>),
    Payload(GET, <<>>, <<>>, <<>>, <<>>) }

Results ==
  {[raised |-> TRUE, status_code |-> 0]} \cup
  {[raised |-> FALSE, status_code |-> s] : s \in ServerStatuses \cup {NetworkFailureStatus}}

(* the ids a client can name: those of the listed History and one that is *)
(* not in it; or none                                                     *)
KnownIds == {file.entries[i].id : i \in 1..Len(file.entries)} \cup {nextId}

TargetIds == {NoId} \cup KnownIds

Names == {<<>>, <<"m">>}

RECURSIVE SeqsUpTo(_, _)
SeqsUpTo(S, n) ==
  IF n = 0 THEN {<<>>}
  ELSE LET shorter == SeqsUpTo(S, n - 1)
       IN  shorter \cup {Append(q, x) : q \in shorter, x \in S}

Orders == SeqsUpTo(KnownIds, MaxOrderLen)

Next ==
  \/ List
  \/ \E payload \in Payloads : nextId <= MaxSends /\ clock <= MaxClock /\ SendBegin(payload)
  \/ \E result \in Results : SendFinish(result)
  \/ \E target_id \in TargetIds : clock <= MaxClock /\ ResendBegin(target_id)
  \/ \E result \in Results : ResendFinish(result)
  \/ \E target_id \in TargetIds : Delete(target_id)
  \/ \E target_id \in TargetIds, name \in Names : Rename(target_id, name)
  \/ \E order \in Orders : Reorder(TRUE, order)
  \/ Reorder(FALSE, <<>>)

Spec == Init /\ [][Next]_vars

----------------------------------------------------------------------------
(* The requests of a client that fills the History: SpecCap.  It sends     *)
(* requests with pairwise distinct urls to a target that answers 200 and,  *)
(* whenever the History holds HistoryCap entries, may also repeat the      *)
(* first stored request under a name, resend, delete, rename or reorder.   *)

Filler(k) == Payload(<<>>, Scheme \o Digits(k), <<>>, <<>>, <<>>)

Full == Len(load_history(file)) = HistoryCap

FirstEntry == load_history(file)[1]

SecondEntry == load_history(file)[2]

CapTargets == {FirstEntry.id}

CapResults == {[raised |-> FALSE, status_code |-> 200]}

NextCap ==
  \/ \E payload \in {Filler(nextId)} :
       nextId <= MaxFill /\ clock <= MaxCapClock /\ SendBegin(payload)
  \/ /\ Full
     /\ nextId <= MaxFill /\ clock <= MaxCapClock
     /\ \E payload \in {Payload(FirstEntry.method, FirstEntry.url, FirstEntry.headers,
                                FirstEntry.body, <<"m">>)} : SendBegin(payload)
  \/ \E result \in CapResults : SendFinish(result)
  \/ Full /\ clock <= MaxCapClock /\ \E target_id \in CapTargets : ResendBegin(target_id)
  \/ \E result \in CapResults : ResendFinish(result)
  \/ Full /\ \E target_id \in CapTargets : Delete(target_id)
  \/ Full /\ \E target_id \in {FirstEntry.id} : Rename(target_id, <<"n">>)
  \/ Full /\ \E order \in {<<SecondEntry.id, FirstEntry.id>>} : Reorder(TRUE, order)

SpecCap == Init /\ [][NextCap]_vars

----------------------------------------------------------------------------
(* Properties *)

Ids(entries) == {entries[i].id : i \in 1..Len(entries)}

Fingerprints(entries) == {entry_fingerprint(entries[i]) : i \in 1..Len(entries)}

WithFingerprint(entries, fingerprint) ==
  {i \in 1..Len(entries) : entry_fingerprint(entries[i]) = fingerprint}

FingerprintList(entries) ==
  List_([i \in 1..Len(entries) |-> entry_fingerprint(entries[i])])

SameIdPerFingerprint(before, after) ==
  LET was == FingerprintList(before)
      is == FingerprintList(after)
  IN  \A i \in 1..Len(before) : \A j \in 1..Len(after) :
        was[i] = is[j] => after[j].id = before[i].id

(* the step is a send that the Executor let complete *)
SendCompletes == inflight.op = "send" /\ last'.op = "send" /\ last'.code = 200

(* C1: no two entries of the persisted History have the same fingerprint. *)
C1_NoDuplicateFingerprints ==
  \A i, j \in 1..Len(file.entries) :
    i # j => entry_fingerprint(file.entries[i]) # entry_fingerprint(file.entries[j])

(* a send with headers has merged into the stored entry of its fingerprint *)
C1_Witness ==
  /\ last.op = "send" /\ last.code = 200
  /\ last.saved.headers # <<>>
  /\ last.saved.id \notin Ids(file.entries)
  /\ entry_fingerprint(last.saved) \in Fingerprints(file.entries)

(* C2: a record of a new fingerprint into a History of HistoryCap entries *)
(* leaves the new entry in the History.                                   *)
C2_NewEntryKeptAtCap ==
  [][(/\ SendCompletes
      /\ Len(load_history(file)) = HistoryCap
      /\ entry_fingerprint(inflight.entry) \notin Fingerprints(file.entries))
     => entry_fingerprint(inflight.entry) \in Fingerprints(file'.entries)]_vars

(* C3: the persisted History never has more than HistoryCap entries; the  *)
(* first HistoryCap records of distinct fingerprints are all kept, and a  *)
(* further record of a new fingerprint leaves exactly HistoryCap entries. *)
C3_CapEnforced ==
  /\ [](Len(file.entries) <= HistoryCap)
  /\ [](nextId <= HistoryCap => Len(file.entries) = nextId - 1)
  /\ [][(/\ SendCompletes
         /\ Len(file.entries) = HistoryCap
         /\ entry_fingerprint(inflight.entry) \notin Fingerprints(file.entries))
        => Len(file'.entries) = HistoryCap]_vars

(* more than HistoryCap distinct requests were recorded and HistoryCap are stored *)
C3_Witness ==
  /\ last.op = "send" /\ last.code = 200
  /\ last.saved.id > HistoryCap
  /\ entry_fingerprint(last.saved) \notin Fingerprints(file.entries)
  /\ Len(file.entries) = HistoryCap

(* C4: while a fingerprint stays in the History, the id stored for it is  *)
(* the same after every step.                                             *)
C4_IdNeverChanges == [][SameIdPerFingerprint(file.entries, file'.entries)]_vars

(* a send with a fresh id has merged into an entry that keeps its id *)
C4_Witness ==
  /\ last.op = "send" /\ last.code = 200
  /\ last.saved.id \notin Ids(file.entries)
  /\ \E i \in WithFingerprint(file.entries, entry_fingerprint(last.saved)) :
       file.entries[i].id < last.saved.id

(* C5: a send with no name into a History that holds its fingerprint      *)
(* under a name leaves one entry for that fingerprint, with that name.    *)
C5_NameSurvivesMerge ==
  [][(SendCompletes /\ inflight.entry.name = <<>>)
     => \A i \in WithFingerprint(file.entries, entry_fingerprint(inflight.entry)) :
          file.entries[i].name # <<>>
            => /\ Cardinality(WithFingerprint(file'.entries,
                                              entry_fingerprint(inflight.entry))) = 1
               /\ \A j \in WithFingerprint(file'.entries,
                                           entry_fingerprint(inflight.entry)) :
                    file'.entries[j].name = file.entries[i].name]_vars

(* a send without a name has merged into an entry that a rename had named *)
C5_Witness ==
  /\ last.op = "send" /\ last.code = 200
  /\ last.saved.name = <<>>
  /\ last.saved.method = GET
  /\ \E i \in WithFingerprint(file.entries, entry_fingerprint(last.saved)) :
       file.entries[i].name = <<"m">>

----------------------------------------------------------------------------
(* Reorder on a stored History: SpecReorder.  The store holds up to       *)
(* MaxStored entries with distinct ids and fingerprints, in any order, as *)
(* sends, deletes and reorders leave them.                                *)

Stored(k) ==
  [NoEntry EXCEPT !.id = k, !.timestamp = k, !.method = GET, !.url = Filler(k).url,
                  !.response_status = 200]

StoredHistories ==
  {List_([i \in 1..Len(q) |-> Stored(q[i])]) :
     q \in {r \in SeqsUpTo(1..MaxStored, MaxStored) :
              \A i, j \in 1..Len(r) : i # j => r[i] # r[j]}}

(* orders over the ids of the first stored entries and an id that is not stored *)
ReorderInputs == SeqsUpTo((1..MaxReorderLen) \cup {MaxStored + 1}, MaxReorderLen)

InitReorder ==
  /\ file \in {save_history(history) : history \in StoredHistories}
  /\ nextId = MaxStored + 1
  /\ clock = MaxStored + 1
  /\ inflight = Idle
  /\ last = NoResponse

NextReorder == \E order \in ReorderInputs : Reorder(TRUE, order)

SpecReorder == InitReorder /\ [][NextReorder]_vars

----------------------------------------------------------------------------

(* C6: record is idempotent: recording an entry a second time leaves the  *)
(* History of the first record, and from the empty History that History   *)
(* has one entry.                                                         *)
RecordInputs ==
  {[id |-> nextId, timestamp |-> clock,
    method |-> upper(IF payload.method = <<>> THEN GET ELSE payload.method),
    url |-> payload.url, headers |-> payload.headers, body |-> payload.body,
    response_status |-> NetworkFailureStatus, name |-> payload.name] :
     payload \in {p \in Payloads : HasScheme(p.url)}}
  \cup {file.entries[i] : i \in 1..Len(file.entries)}

IdempotentOn(f, e) ==
  LET once == record_entry(f, e).file
      twice == record_entry(once, e).file
  IN  twice = once /\ (load_history(f) = <<>> => Len(twice.entries) = 1)

C6_RecordIdempotent == \A e \in RecordInputs : IdempotentOn(file, e)

(* two sends of one fingerprint from the empty store left one entry *)
C6_Witness ==
  /\ last.op = "send" /\ last.code = 200
  /\ Len(file.entries) = 1
  /\ file.entries[1].id = 1
  /\ last.saved.id = 2
  /\ nextId = 3

(* C7: reorder returns and persists the entries named in the order, once  *)
(* each by first occurrence, then the others in stored order; no entry is *)
(* lost or repeated and unknown ids add nothing.                          *)
ReorderedAsSpecified(history, order, result) ==
  LET new == result.ret
      mentioned == {id \in Ids(history) : \E k \in 1..Len(order) : order[k] = id}
      first(id) == CHOOSE k \in 1..Len(order) :
                     order[k] = id /\ \A l \in 1..(k - 1) : order[l] # id
      at(id) == CHOOSE i \in 1..Len(history) : history[i].id = id
      m == Cardinality(mentioned)
  IN  /\ result.file = save_history(new)
      /\ Len(new) = Len(history)
      /\ \A i \in 1..Len(history) : \E j \in 1..Len(new) : new[j] = history[i]
      /\ \A j \in 1..m : new[j].id \in mentioned
      /\ \A i, j \in 1..m : i < j => first(new[i].id) < first(new[j].id)
      /\ \A i, j \in (m + 1)..Len(new) : i < j => at(new[i].id) < at(new[j].id)

C7_ReorderIsPermutation ==
  \A order \in ReorderInputs :
    ReorderedAsSpecified(load_history(file), order, reorder_entries(file, order))

(* a reorder has brought the fourth and the second stored entry to the front *)
C7_Witness ==
  /\ last.op = "reorder" /\ last.code = 200
  /\ Len(file.entries) = 4
  /\ file.entries[1].id = 4 /\ file.entries[2].id = 2
  /\ file.entries[3].id = 1 /\ file.entries[4].id = 3

(* the History after a step has no more entries than before it, and no id *)
(* and no fingerprint that was not in it                                  *)
NothingCreated(before, after) ==
  LET was == FingerprintList(before)
      is == FingerprintList(after)
  IN  /\ Len(after) <= Len(before)
      /\ \A j \in 1..Len(after) : \E i \in 1..Len(before) : after[j].id = before[i].id
      /\ \A j \in 1..Len(after) : \E i \in 1..Len(before) : is[j] = was[i]

(* C8: a step that is not the completion of a send adds no entry, no id   *)
(* and no fingerprint to the persisted History.                           *)
C8_OnlySendCreates ==
  [][inflight.op # "send" => NothingCreated(file.entries, file'.entries)]_vars

(* a resend of a stored entry has completed *)
C8_Witness ==
  /\ last.op = "resend" /\ last.code = 200
  /\ last.saved.id \in Ids(file.entries)
  /\ last.saved.timestamp > 1

(* C9: every load returns all the persisted entries, a delete removes the *)
(* entry of its id and keeps the others in order, and no other step       *)
(* removes an entry.                                                      *)
Without(entries, entry_id) ==
  LET other(item) == item.id # entry_id IN SelectSeq(entries, other)

C9_DestroyedOnlyByDelete ==
  /\ [](load_history(file) = file.entries)
  /\ [][IF last'.op = "delete" /\ last'.code = 200
        THEN /\ last'.id \in Ids(file.entries)
             /\ file'.entries = Without(file.entries, last'.id)
        ELSE Ids(file.entries) \subseteq Ids(file'.entries)]_vars

(* after a send into the full History, a delete has removed the first entry *)
C9_Witness ==
  /\ last.op = "delete" /\ last.code = 200
  /\ last.id = 1
  /\ nextId > HistoryCap + 1
  /\ Len(file.entries) = HistoryCap - 1
  /\ last.id \notin Ids(file.entries)

(* C10: every send with a url completes with answer 200 and leaves an     *)
(* entry of its fingerprint that carries the status the answer carries.   *)
C10_SendAlwaysRecorded ==
  [][(inflight.op = "send" /\ inflight'.op = "idle")
     => /\ last'.op = "send" /\ last'.code = 200
        /\ \E i \in WithFingerprint(file'.entries, entry_fingerprint(inflight.entry)) :
             file'.entries[i].response_status = last'.status]_vars

----------------------------------------------------------------------------

(* an id the History lacks is found by no lookup and no Store operation, *)
(* which leave the file as it is and return false                        *)
UnknownIdsRejected(f, targets) ==
  LET history == load_history(f)
  IN  \A t \in targets \ Ids(history) :
        /\ remove_entry(f, t) = [file |-> f, ret |-> FALSE]
        /\ \A name \in Names : rename_entry(f, t, name) = [file |-> f, ret |-> FALSE]
        /\ FirstWithId(history, t) = NoEntry

(* the step is answered 400 or 404 *)
Rejected == last'.code \in {400, 404}

(* C11: a request answered 400 or 404 leaves the persisted file as it is  *)
(* and starts no call of the Executor; an id that is not in the History   *)
(* is found by no operation, and only a request with a url or with a      *)
(* stored id is accepted.                                                 *)
C11_RejectedHasNoEffect ==
  /\ [](UnknownIdsRejected(file, TargetIds))
  /\ [][Rejected => UNCHANGED <<file, inflight, nextId, clock>>]_vars
  /\ [][(inflight.op = "idle" /\ inflight'.op = "send") => inflight'.entry.url # <<>>]_vars
  /\ [][(inflight.op = "idle" /\ inflight'.op = "resend")
          => inflight'.entry.id \in Ids(file.entries) \ {NoId}]_vars
  /\ [][(last'.op \in {"delete", "rename"} /\ last'.code = 200)
          => last'.id \in Ids(file.entries) \ {NoId}]_vars

(* a delete of an id that a non-empty History lacks was answered 404 *)
C11_Witness ==
  /\ last.op = "delete" /\ last.code = 404
  /\ file.entries # <<>>
  /\ inflight = Idle

----------------------------------------------------------------------------
(* Requests on a store that was written from outside: SpecStored.  The     *)
(* file is absent, not JSON, JSON of another shape, or an array of up to   *)
(* MaxPersisted entries that may repeat a fingerprint or an id; the client *)
(* lists, deletes, renames and reorders.                                   *)

Colliding == << <<<<"a">>, <<"1">>>>, <<<<" ", "a">>, <<"2">>>> >>

Reversed(items) == List_([i \in 1..Len(items) |-> items[Len(items) + 1 - i]])

PersistedEntries ==
  { [NoEntry EXCEPT !.id = 1, !.timestamp = 1, !.method = GET, !.url = X,
                    !.response_status = 200],
    [NoEntry EXCEPT !.id = 2, !.timestamp = 2, !.method = <<"g", "e", "t">>,
                    !.url = X \o <<" ">>, !.response_status = 404],
    [NoEntry EXCEPT !.id = 1, !.timestamp = 3, !.method = POST, !.url = X,
                    !.headers = Colliding, !.response_status = 200],
    [NoEntry EXCEPT !.id = 1, !.timestamp = 3, !.method = POST, !.url = X,
                    !.headers = Reversed(Colliding), !.response_status = 200] }

PersistedFiles ==
  {NoFile,
   [exists |-> TRUE, form |-> "malformed", entries |-> <<>>],
   [exists |-> TRUE, form |-> "other", entries |-> <<>>]}
  \cup {save_history(entries) : entries \in SeqsUpTo(PersistedEntries, MaxPersisted)}

InitStored ==
  /\ file \in PersistedFiles
  /\ nextId = MaxPersisted
  /\ clock = MaxPersisted + 1
  /\ inflight = Idle
  /\ last = NoResponse

NextStored ==
  \/ List
  \/ \E target_id \in TargetIds : Delete(target_id)
  \/ \E target_id \in TargetIds : Rename(target_id, <<"m">>)
  \/ \E order \in Orders : Reorder(TRUE, order)

SpecStored == InitStored /\ [][NextStored]_vars

(* the indices of the entries that no earlier entry shares a fingerprint with *)
FirstOccurrences(entries) ==
  LET fingerprint == FingerprintList(entries)
  IN  {i \in 1..Len(entries) : \A j \in 1..(i - 1) : fingerprint[j] # fingerprint[i]}

LoadedAsSpecified(entries, loaded) ==
  LET kept == FirstOccurrences(entries)
      nth(k) == CHOOSE i \in kept : Cardinality({j \in kept : j < i}) = k - 1
  IN  /\ Len(loaded) = Cardinality(kept)
      /\ \A k \in 1..Len(loaded) : loaded[k] = entries[nth(k)]
      /\ \A k, l \in 1..Len(loaded) :
           k # l => entry_fingerprint(loaded[k]) # entry_fingerprint(loaded[l])

(* C12: load returns the first entry of each fingerprint, in the persisted *)
(* order, and loading what was loaded and saved returns the same History.  *)
C12_LoadKeepsFirstOccurrences ==
  (file.exists /\ file.form = "array")
    => /\ LoadedAsSpecified(file.entries, load_history(file))
       /\ load_history(save_history(load_history(file))) = load_history(file)

(* a list of a store of three entries, the first two of one fingerprint *)
C12_Witness ==
  /\ last.op = "list" /\ last.code = 200
  /\ Len(file.entries) = 3
  /\ entry_fingerprint(file.entries[1]) = entry_fingerprint(file.entries[2])
  /\ file.entries[1] # file.entries[2]
  /\ Len(load_history(file)) = 2

(* C13: every list and Store operation completes: no handler ends in an  *)
(* exception raised by load, whatever the persisted file holds.          *)
C13_LoadNeverFails == last.op # "none" => last.code # 0

(* the header mappings hold the same pairs, in any insertion order, and *)
(* the entries are equal otherwise                                      *)
DifferOnlyInHeaderOrder(a, b) ==
  /\ [a EXCEPT !.headers = <<>>] = [b EXCEPT !.headers = <<>>]
  /\ Len(a.headers) = Len(b.headers)
  /\ {a.headers[i] : i \in 1..Len(a.headers)} = {b.headers[i] : i \in 1..Len(b.headers)}

(* C14: two entries that differ only in the insertion order of their *)
(* headers have the same fingerprint.                                *)
C14_FingerprintOrderIndependent ==
  \A i, j \in 1..Len(file.entries) :
    DifferOnlyInHeaderOrder(file.entries[i], file.entries[j])
      => entry_fingerprint(file.entries[i]) = entry_fingerprint(file.entries[j])

(* C15: the load-modify-save cycles of two requests do not interleave:   *)
(* while a handler waits for the Executor the only step is its own       *)
(* completion, the entry a resend looked up is still stored as it was    *)
(* when it is recorded, and the record is applied to the file as the     *)
(* last completed operation left it.                                     *)
C15_NoLostUpdate ==
  /\ [](inflight.op = "resend"
          => \E i \in 1..Len(file.entries) : file.entries[i] = inflight.entry)
  /\ [][inflight.op # "idle" => (inflight' = Idle /\ last'.op = inflight.op)]_vars
  /\ [][(inflight.op # "idle" /\ last'.code = 200)
          => file' = record_entry(file, last'.saved).file]_vars

(* a resend of a stored entry that was renamed waits for the Executor *)
C15_Witness ==
  /\ inflight.op = "resend"
  /\ Len(file.entries) = 1
  /\ inflight.entry = file.entries[1]
  /\ inflight.entry.name = <<"m">>

----------------------------------------------------------------------------
(* One send or resend on a stored History: SpecMerge.  The store is one of *)
(* StoredHistories, with its entry of id 1 renamed; the client repeats the *)
(* request of that entry, in another spelling, or sends a new one, or      *)
(* resends a stored entry.                                                 *)

MergePayloads ==
  {Payload(<<"g", "e", "t">>, Filler(k).url \o <<" ">>, <<>>, <<>>, name) :
     k \in {1, MaxStored + 1}, name \in Names}

InitMerge ==
  /\ file \in {rename_entry(save_history(history), 1, <<"m">>).file :
                 history \in StoredHistories}
  /\ nextId = MaxStored + 1
  /\ clock = MaxStored + 1
  /\ inflight = Idle
  /\ last = NoResponse

NextMerge ==
  \/ \E payload \in MergePayloads : clock <= MaxStored + 1 /\ SendBegin(payload)
  \/ \E result \in Results : SendFinish(result)
  \/ \E target_id \in TargetIds : clock <= MaxStored + 1 /\ ResendBegin(target_id)
  \/ \E result \in Results : ResendFinish(result)

SpecMerge == InitMerge /\ [][NextMerge]_vars

(* the entry a send hands to record: the payload's request with a fresh *)
(* id, the time and the status the answer carries                       *)
SentEntry ==
  [inflight.entry EXCEPT !.id = nextId, !.timestamp = clock,
                         !.response_status = last'.status]

(* the History keeps, for the fingerprint of entry, the ids it had, and *)
(* does not take the id of entry                                        *)
KeepsPreviousId(before, after, entry) ==
  LET fingerprint == entry_fingerprint(entry)
  IN  \A i \in WithFingerprint(before, fingerprint) :
        /\ entry.id \notin Ids(after)
        /\ \E j \in WithFingerprint(after, fingerprint) : after[j].id = before[i].id

(* C16: record returns the entry as passed, and the answer of a send     *)
(* carries that entry as `saved`, with its fresh id, also when the send  *)
(* merged into a stored entry, which keeps its previous id.              *)
C16_SavedIsCallersEntry ==
  [][SendCompletes
     => /\ last'.saved = SentEntry
        /\ record_entry(file, SentEntry).ret = SentEntry
        /\ KeepsPreviousId(file.entries, file'.entries, SentEntry)]_vars

(* a send without a name has merged into the renamed entry of id 1, among *)
(* others, and its answer carries the fresh id                            *)
C16_Witness ==
  /\ last.op = "send" /\ last.code = 200
  /\ last.saved.id = MaxStored + 1
  /\ last.saved.name = <<>>
  /\ Len(file.entries) = MaxStored
  /\ \E i \in WithFingerprint(file.entries, entry_fingerprint(last.saved)) :
       file.entries[i].id = 1 /\ file.entries[i].name = <<"m">>

(* after has the length of before and differs from it at most in the entry *)
(* of the fingerprint of entry, which is where it was                      *)
MergedInPlace(before, after, entry) ==
  LET fingerprint == entry_fingerprint(entry)
      was == FingerprintList(before)
      is == FingerprintList(after)
  IN  /\ Len(after) = Len(before)
      /\ \A i \in 1..Len(before) :
           IF was[i] = fingerprint THEN is[i] = fingerprint ELSE after[i] = before[i]

(* the step completes a send or a resend whose record finds its fingerprint *)
RecordMerges ==
  /\ inflight.op # "idle" /\ last'.code = 200
  /\ entry_fingerprint(last'.saved) \in Fingerprints(file.entries)

(* C17: a record that merges leaves the History at its length, the merged *)
(* entry at the index of the previous one and every other entry as it was. *)
C17_MergeKeepsPosition ==
  [][RecordMerges => MergedInPlace(file.entries, file'.entries, last'.saved)]_vars

(* a send has merged into the second of four entries *)
C17_Witness ==
  /\ last.op = "send" /\ last.code = 200
  /\ Len(file.entries) = 4
  /\ last.saved.id \notin Ids(file.entries)
  /\ entry_fingerprint(file.entries[2]) = entry_fingerprint(last.saved)
  /\ file.entries[2].timestamp = last.saved.timestamp

(* after is before with the status and the time of the entry of that id *)
(* replaced, and nothing else                                           *)
OnlyOutcomeChanged(before, after, entry_id, status, time) ==
  /\ Len(after) = Len(before)
  /\ \A i \in 1..Len(before) :
       IF before[i].id = entry_id
       THEN /\ after[i].id = before[i].id /\ after[i].name = before[i].name
            /\ after[i].method = before[i].method /\ after[i].url = before[i].url
            /\ after[i].headers = before[i].headers /\ after[i].body = before[i].body
            /\ after[i].response_status = status /\ after[i].timestamp = time
       ELSE after[i] = before[i]

(* C18: a resend calls the Executor once, with the stored request, and    *)
(* when it succeeds changes only the response_status and the timestamp of *)
(* the entry of its id.                                                   *)
C18_ResendChangesOnlyOutcome ==
  /\ [](inflight.op = "resend"
          => /\ inflight.entry.id \in Ids(file.entries)
             /\ \A i \in 1..Len(file.entries) :
                  file.entries[i].id = inflight.entry.id => file.entries[i] = inflight.entry)
  /\ [][inflight.op = "resend" => inflight' = Idle]_vars
  /\ [][(inflight.op = "resend" /\ last'.code = 200)
          => OnlyOutcomeChanged(file.entries, file'.entries, inflight.entry.id,
                                last'.status, clock)]_vars

(* a resend of the third of four entries, the renamed one, stored a 404 *)
C18_Witness ==
  /\ last.op = "resend" /\ last.code = 200 /\ last.status = 404
  /\ Len(file.entries) = 4
  /\ file.entries[3].id = 1 /\ file.entries[3].name = <<"m">>
  /\ file.entries[3].response_status = 404
  /\ file.entries[3].timestamp = MaxStored + 1

(* result is what the rename of entry_id to name owes on the file f *)
RenamedAsSpecified(f, entry_id, name, result) ==
  LET history == load_history(f)
      matches == {i \in 1..Len(history) : history[i].id = entry_id}
      new == result.file.entries
  IN  IF matches = {}
      THEN result.ret = FALSE /\ result.file = f
      ELSE /\ result.ret = TRUE
           /\ result.file.exists /\ result.file.form = "array"
           /\ load_history(result.file) = new
           /\ Len(new) = Len(history)
           /\ \A i \in 1..Len(history) :
                IF i \in matches /\ \A j \in 1..(i - 1) : j \notin matches
                THEN /\ new[i] = [history[i] EXCEPT !.name = name]
                     /\ entry_fingerprint(new[i]) = entry_fingerprint(history[i])
                ELSE new[i] = history[i]

(* C19: rename sets the name of the first entry of the id and nothing    *)
(* else, returns true and saves exactly when there is such an entry, and *)
(* otherwise returns false and saves nothing.                            *)
C19_RenameSetsOnlyName ==
  ~LoadRaises(file)
    => \A target_id \in KnownIds, name \in Names :
         RenamedAsSpecified(file, target_id, name, rename_entry(file, target_id, name))

(* a rename has named the first of two entries that carry its id *)
C19_Witness ==
  /\ last.op = "rename" /\ last.code = 200 /\ last.name = <<"m">>
  /\ Len(file.entries) >= 2
  /\ file.entries[1].id = last.id /\ file.entries[2].id = last.id
  /\ file.entries[1].name = <<"m">> /\ file.entries[2].name = <<>>

(* C20: the ids of the entries of the persisted History are pairwise *)
(* distinct.                                                         *)
C20_DistinctIds ==
  \A i, j \in 1..Len(file.entries) : i # j => file.entries[i].id # file.entries[j].id

(* a resend has merged into the only entry, which keeps its id *)
C20_Witness ==
  /\ last.op = "resend" /\ last.code = 200
  /\ Len(file.entries) = 1
  /\ file.entries[1].id = last.saved.id
  /\ file.entries[1].timestamp = 2
  /\ nextId = 2

====
